---- MODULE Spec2Model ----
(***************************************************************************)
(* Model of src/src_python/main.py: the thermistor-calibration logger.     *)
(*                                                                         *)
(* Threads:                                                                *)
(*   GUI thread   - record-button clicks (process_qpbt_record), the        *)
(*                  clear button (clear_all_charts) and the shutdown       *)
(*                  handler about_to_quit;                                 *)
(*   DAQ thread   - mux_process, once per multiplexer tick;                *)
(*   PT104 thread - refreshes pt104.state.ch1_T on its own cadence.        *)
(*                                                                         *)
(* mux_process is cut into steps at the points where it reads or writes    *)
(* state that another thread touches (the FileLogger flags and handle,     *)
(* pt104.state.ch1_T); code between two such points is one step.           *)
(*                                                                         *)
(* FileLogger (dvg_pyqt_filelogger), the chart buffers                     *)
(* (dvg_pyqtgraph_threadsafe) and the device drivers (dvg_devices) are     *)
(* libraries: their operations are modelled by what main.py relies on at   *)
(* each call site (create_log returns a bool and clears the request flags, *)
(* write swallows I/O errors and returns a bool, close_log closes the      *)
(* handle only when recording).                                            *)
(***************************************************************************)
EXTENDS Integers, Sequences, FiniteSets, TLC

(* ----------------------------- bounds ---------------------------------- *)
MaxTicks == 3
MaxClicks == 3
\* ticks explored under the full set of device inputs (SpecData)
MaxDataTicks == 2
\* times the charts are asked to be cleared
MaxClears == 2
\* capacity of every HistoryChartCurve (1800 in the source, scaled down)
CH_SAMPLES_MUX == 2

(* ------------------------- program constants --------------------------- *)
\* len(mux.state.all_scan_list_channels)
N_channels == 2
\* mux.state.all_scan_list_channels: the channel manifest
all_scan_list_channels == [i \in 1..N_channels |-> 100 + i]

\* floats are modelled in units of 1e36; 9.8e37 is the overflow threshold
OverflowThreshold == 98
\* numpy.nan: a code outside the value range; every comparison with it is
\* FALSE, as in Python
NaN == 1000

\* x > y on floats
Gt(x, y) == x # NaN /\ y # NaN /\ x > y

\* |x| is beyond the overflow threshold
IsSentinel(x) == x # NaN /\ (x > OverflowThreshold \/ 0 - x > OverflowThreshold)

(* ------------------------------ inputs --------------------------------- *)
\* what a channel may read: an ordinary value, or one of the multiplexer's
\* overload sentinels, +9.9e37 and -9.9e37
Reading == [normal |-> 5, posOverload |-> 99, negOverload |-> 0 - 99]
ReadingValues == {Reading.normal, Reading.posOverload, Reading.negOverload}

Abnormal(rd) == Cardinality({i \in DOMAIN rd : rd[i] # Reading.normal})

\* what the multiplexer may hold in mux.state.readings after a scan: one
\* value per channel, or (line 555 allows for it) fewer
FullReport == [i \in 1..N_channels |-> Reading.normal]
ShortReport == [i \in 1..(N_channels - 1) |-> Reading.normal]
DeviceReports ==
    {rd \in [1..N_channels -> ReadingValues] : Abnormal(rd) <= 1}
        \cup {ShortReport}

\* a tick's input: whether the multiplexer is scanning, and the scan
TickInputs ==
    {[scan |-> TRUE, rd |-> rd] : rd \in DeviceReports}
        \cup {[scan |-> FALSE, rd |-> <<>>]}
\* the inputs that decide a tick's control flow: a full scan, a short one
ControlInputs == {[scan |-> TRUE, rd |-> rd] : rd \in {FullReport, ShortReport}}

\* reply of bath.query_P1_temp: a temperature, or NaN when the query fails
BathAnswers == {20}
BathReplies == BathAnswers \cup {NaN}
\* values the PT104 reports on channel 1
Pt104Values == {30, 31}

\* Time is counted in half tick intervals: tick k takes its time stamp at
\* TickTime(k), and whatever is read from a device after that and before the
\* next tick is obtained at AfterTick(k).
TickTime(k) == 2 * k
AfterTick(k) == 2 * k + 1

\* an auxiliary reading: its value and the time it was obtained
NoReading == [v |-> NaN, at |-> 0]

(* ------------------------------ state ---------------------------------- *)
VARIABLES
    gpc,            \* GUI thread: startup, run, log_closed, threads_closed,
                    \* done (about_to_quit returned), exited (sys.exit at startup)
    checked,        \* window.qpbt_record.isChecked()
    clicks,         \* number of clicks so far
    cpc,            \* GUI thread: position inside clear_all_charts
    clears,         \* number of times clear_all_charts was called so far
    starting,       \* file_logger.starting
    stopping,       \* file_logger.stopping
    is_recording,   \* file_logger.is_recording
    start_time,     \* file_logger.start_time
    f_log,          \* file_logger.f_log: index into files, 0 = None
    files,          \* every log file created, in order of creation
    disk,           \* "ok", or "fail": writes raise an I/O error
    bath,           \* bath.state: P1_temp, P2_temp
    ch1_T,          \* pt104.state.ch1_T
    mux_readings,   \* mux.state.readings
    tpc,            \* DAQ thread: position inside mux_process
    ticks,          \* number of ticks begun so far
    epoch_time,     \* mux_process: epoch_time
    readings,       \* mux_process: readings
    ich,            \* mux_process: i of the loop of lines 504-505, 0 outside
    CHs_mux,        \* window.CHs_mux
    CH_P1_temp,     \* window.CH_P1_temp
    CH_P2_temp,     \* window.CH_P2_temp
    CH_PT104_ch1_T, \* window.CH_PT104_ch1_T
    hist            \* history: what happened, for stating the properties

vars == <<gpc, checked, clicks, cpc, clears, ich, starting, stopping, is_recording,
          start_time, f_log, files, disk, bath, ch1_T, mux_readings,
          tpc, ticks, epoch_time, readings, CHs_mux, CH_P1_temp,
          CH_P2_temp, CH_PT104_ch1_T, hist>>

loggerVars == <<starting, stopping, is_recording, start_time, f_log, files>>
chartVars == <<CHs_mux, CH_P1_temp, CH_P2_temp, CH_PT104_ch1_T>>
guiVars == <<gpc, checked, clicks, cpc, clears>>
tickLocals == <<epoch_time, readings, ich>>

(* --------------------------- log file text ----------------------------- *)
\* A file's text is the sequence of pieces written to it.
TAB == [t |-> "tab"]
NL == [t |-> "nl"]
\* a literal column name; ch is the channel label of a "CH%s" column
Txt(s, ch) == [t |-> "txt", s |-> s, ch |-> ch]
\* a formatted number; at is the time the value was obtained
Num(fmt, v, at) == [t |-> "num", fmt |-> fmt, v |-> v, at |-> at]

\* cur_date_time.toString("yyMMdd_HHmmss"): ticks are MUX_SCANNING_INTERVAL_MS
\* = 1000 ms apart, so two ticks never share a name
FileName(cur_date_time) == cur_date_time

NewFile(fn) == [name |-> fn, text |-> <<>>, open |-> TRUE, ticks |-> 0]

(* ------------------------- FileLogger (library) ------------------------ *)
HandleClosed == f_log # 0 /\ ~files[f_log].open
CanWrite == f_log # 0 /\ files[f_log].open /\ disk = "ok"

\* file_logger.write(data), once per piece: a failing write is swallowed
\* and reported by the return value, which mux_process never reads
write(fs, data) ==
    IF CanWrite THEN [fs EXCEPT ![f_log].text = @ \o data] ELSE fs

\* what a write adds to the history: a write issued to a closed handle, and
\* a write that failed on an open handle
Wrote(h) ==
    [h EXCEPT !.closedWrite = @ \/ HandleClosed,
              !.ioError = @ \/ (f_log # 0 /\ files[f_log].open /\ disk = "fail")]

\* file_logger.create_log(start_time, fn_log, mode="w")
create_log(st, fn, canOpen) ==
    /\ start_time' = st
    /\ starting' = FALSE
    /\ stopping' = FALSE
    /\ is_recording' = canOpen
    /\ files' = IF canOpen THEN Append(files, NewFile(fn)) ELSE files
    /\ f_log' = IF canOpen THEN Len(files) + 1 ELSE f_log

\* file_logger.close_log()
close_log ==
    /\ files' = IF is_recording THEN [files EXCEPT ![f_log].open = FALSE] ELSE files
    /\ starting' = FALSE
    /\ stopping' = FALSE
    /\ is_recording' = FALSE
    /\ UNCHANGED <<start_time, f_log>>

(* ---------------------- HistoryChartCurve (library) -------------------- *)
\* a slip: the buffer is built without its capacity and never evicts
appendData_Unbounded(buf, s) == Append(buf, s)

\* appendData / add_new_reading on a ring buffer of capacity CH_SAMPLES_MUX
appendData(buf, s) ==
    IF Len(buf) < CH_SAMPLES_MUX THEN Append(buf, s) ELSE Append(Tail(buf), s)

(* ------------------------------- Init ---------------------------------- *)
\* clear_all_charts is not running
NotClearing == [at |-> "none", k |-> 0]

NoFail == [on |-> FALSE, files |-> <<>>, clicks |-> 0, tick |-> 0]

Init ==
    /\ gpc = "startup"
    /\ checked = FALSE
    /\ clicks = 0
    /\ cpc = NotClearing
    /\ clears = 0
    /\ starting = FALSE
    /\ stopping = FALSE
    /\ is_recording = FALSE
    /\ start_time = 0
    /\ f_log = 0
    /\ files = <<>>
    /\ disk = "ok"
    /\ bath = [P1_temp |-> NoReading, P2_temp |-> NoReading]
    /\ ch1_T = NoReading
    /\ mux_readings = [i \in 1..N_channels |-> NaN]
    /\ tpc = "idle"
    /\ ticks = 0
    /\ epoch_time = 0
    /\ readings = <<>>
    /\ ich = 0
    /\ CHs_mux = [i \in 1..N_channels |-> <<>>]
    /\ CH_P1_temp = <<>>
    /\ CH_P2_temp = <<>>
    /\ CH_PT104_ch1_T = <<>>
    /\ hist = [closedWrite |-> FALSE, ioError |-> FALSE, aborted |-> 0,
               raw |-> <<>>, scan |-> FALSE, bathFailed |-> FALSE,
               nCreate |-> 0, nStartClicks |-> 0, fail |-> NoFail,
               sinceClick |-> "none",
               fed |-> [ch |-> [i \in 1..N_channels |-> <<>>],
                        P1 |-> <<>>, P2 |-> <<>>, PT |-> <<>>],
               appended |-> [ch |-> [i \in 1..N_channels |-> 0],
                             P1 |-> 0, P2 |-> 0, PT |-> 0]]

(* ---------------------------- GUI thread ------------------------------- *)
\* __main__, lines 608-651: the three connects.  A multiplexer or a PT104
\* that did not connect leaves the program running (it then never scans,
\* or never refreshes ch1_T); without the bath the program exits.
Startup ==
    /\ gpc = "startup"
    /\ \E mux_connected \in BOOLEAN, pt104_connected \in BOOLEAN,
          bath_connected \in BOOLEAN :
        gpc' = IF bath_connected THEN "run" ELSE "exited"
    /\ UNCHANGED <<checked, clicks, cpc, clears, loggerVars, disk, bath, ch1_T,
                   mux_readings, tpc, ticks, tickLocals, chartVars, hist>>

\* process_qpbt_record: the toggle button was clicked
process_qpbt_record ==
    /\ gpc = "run"
    /\ clicks < MaxClicks
    /\ checked' = ~checked
    /\ clicks' = clicks + 1
    /\ IF checked'
         THEN /\ starting' = TRUE
              /\ UNCHANGED stopping
              /\ hist' = [hist EXCEPT !.nStartClicks = @ + 1,
                                      !.sinceClick = "none"]
         ELSE /\ stopping' = TRUE
              /\ hist' = [hist EXCEPT !.sinceClick = "none"]
              /\ UNCHANGED starting
    /\ UNCHANGED <<gpc, cpc, clears, is_recording, start_time, f_log, files, disk,
                   bath, ch1_T, mux_readings, tpc, ticks, tickLocals, chartVars>>

\* about_to_quit, line 458: file_logger.close_log()
QuitCloseLog ==
    /\ gpc = "run"
    /\ gpc' = "log_closed"
    /\ close_log
    /\ UNCHANGED <<checked, clicks, cpc, clears, disk, bath, ch1_T, mux_readings, tpc,
                   ticks, tickLocals, chartVars, hist>>

\* about_to_quit, lines 459-460: close_all_threads returns once the worker
\* threads have finished what they were running
QuitCloseThreads ==
    /\ gpc = "log_closed"
    /\ tpc = "idle"
    /\ gpc' = "threads_closed"
    /\ UNCHANGED <<checked, clicks, cpc, clears, loggerVars, disk, bath, ch1_T,
                   mux_readings, tpc, ticks, tickLocals, chartVars, hist>>

\* about_to_quit, lines 462-477: the devices are closed
QuitCloseDevices ==
    /\ gpc = "threads_closed"
    /\ gpc' = "done"
    /\ UNCHANGED <<checked, clicks, cpc, clears, loggerVars, disk, bath, ch1_T,
                   mux_readings, tpc, ticks, tickLocals, chartVars, hist>>

\* clear_all_charts, lines 301-312: the button was clicked and the message
\* box was answered
clear_all_charts ==
    /\ gpc = "run"
    /\ cpc.at = "none"
    /\ clears < MaxClears
    /\ clears' = clears + 1
    /\ \E reply \in {"Yes", "No"} :
        cpc' = IF reply = "Yes" THEN [at |-> "clear", k |-> 1] ELSE NotClearing
    /\ UNCHANGED <<gpc, checked, clicks, loggerVars, disk, bath, ch1_T,
                   mux_readings, tpc, ticks, tickLocals, chartVars, hist>>

\* clear_all_charts, lines 313-316: one clear(); buffer k is channel k for
\* k <= N_channels, then CH_P1_temp, CH_P2_temp and CH_PT104_ch1_T
ClearNext ==
    /\ cpc.at = "clear"
    /\ LET k == cpc.k
       IN  /\ CHs_mux' = IF k <= N_channels THEN [CHs_mux EXCEPT ![k] = <<>>]
                                            ELSE CHs_mux
           /\ CH_P1_temp' = IF k = N_channels + 1 THEN <<>> ELSE CH_P1_temp
           /\ CH_P2_temp' = IF k = N_channels + 2 THEN <<>> ELSE CH_P2_temp
           /\ CH_PT104_ch1_T' = IF k = N_channels + 3 THEN <<>> ELSE CH_PT104_ch1_T
           /\ hist' = IF k <= N_channels THEN [hist EXCEPT !.fed.ch[k] = <<>>]
                      ELSE IF k = N_channels + 1 THEN [hist EXCEPT !.fed.P1 = <<>>]
                      ELSE IF k = N_channels + 2 THEN [hist EXCEPT !.fed.P2 = <<>>]
                      ELSE [hist EXCEPT !.fed.PT = <<>>]
           /\ cpc' = IF k = N_channels + 3 THEN NotClearing
                                           ELSE [at |-> "clear", k |-> k + 1]
    /\ UNCHANGED <<gpc, checked, clicks, clears, loggerVars, disk, bath, ch1_T,
                   mux_readings, tpc, ticks, tickLocals>>

\* the worker threads run from startup until close_all_threads
ThreadsRunning == gpc \in {"run", "log_closed"}

(* --------------------------- PT104 thread ------------------------------ *)
\* the PT104 worker stores a fresh reading in pt104.state.ch1_T
Pt104Update ==
    /\ ThreadsRunning
    /\ \E v \in Pt104Values : ch1_T' = [v |-> v, at |-> AfterTick(ticks)]
    /\ ch1_T' # ch1_T
    /\ UNCHANGED <<guiVars, loggerVars, disk, bath, mux_readings, tpc, ticks,
                   tickLocals, chartVars, hist>>

(* ---------------------------- environment ------------------------------ *)
\* from here on every write to the disk raises an I/O error
DiskFault ==
    /\ ThreadsRunning
    /\ disk = "ok"
    /\ disk' = "fail"
    /\ UNCHANGED <<guiVars, loggerVars, bath, ch1_T, mux_readings, tpc,
                   ticks, tickLocals, chartVars, hist>>

(* ----------------------- DAQ thread: mux_process ----------------------- *)
\* lines 495-497: overload readings become NaN, in place
Normalise(rd) ==
    [i \in DOMAIN rd |-> IF Gt(rd[i], OverflowThreshold) THEN NaN ELSE rd[i]]

\* lines 530-538: the header, one piece per write
HeaderText ==
    <<Txt("time[s]", 0), TAB, Txt("P1_temp[degC]", 0), TAB,
      Txt("P2_temp[degC]", 0), TAB, Txt("PT104_Ch1[degC]", 0), TAB>>
    \o [k \in 1..(2 * (N_channels - 1)) |->
          IF k % 2 = 1 THEN Txt("CH", all_scan_list_channels[(k + 1) \div 2])
                       ELSE TAB]
    \o <<Txt("CH", all_scan_list_channels[N_channels]), NL>>

\* line 547: log_elapsed_time
log_elapsed_time == epoch_time - start_time

\* lines 550-552
RowAuxText ==
    <<Num("%.3f", log_elapsed_time, epoch_time), TAB,
      Num("%.2f", bath.P1_temp.v, bath.P1_temp.at), TAB,
      Num("%.2f", bath.P2_temp.v, bath.P2_temp.at), TAB>>

\* lines 553-559: the PT104 column, then the channel columns, read from
\* mux.state.readings, and the end of the line
RowRestText ==
    <<Num("%.3f", ch1_T.v, ch1_T.at)>>
    \o [k \in 1..(2 * N_channels) |->
          IF k % 2 = 1 THEN TAB
          ELSE IF Len(mux_readings) <= (k \div 2) - 1
                 THEN Num("%.5e", NaN, 0)
                 ELSE Num("%.5e", mux_readings[k \div 2], 0)]
    \o <<NL>>

\* line 505: what add_new_reading(epoch_time, readings[i]) appends
Sample(t, v) == [t |-> t, v |-> v]
\* lines 510-512: what appendData(epoch_time, <reading>) appends
AuxSample(t, r) == [t |-> t, v |-> r.v, at |-> r.at]

\* lines 486-512: the time stamp, the readings, the chart appends of the
\* channels, the bath query and the chart appends of the bath and the PT104.
\* With the multiplexer scanning, the library has stored the scan in
\* mux.state.readings before mux_process runs; a scan shorter than the
\* manifest raises IndexError at line 496 and ends the tick.
TickBegin(Inputs, Replies, Bound) ==
    /\ ThreadsRunning
    /\ tpc = "idle"
    /\ ticks < Bound
    /\ \E in \in Inputs, p1 \in Replies :
        LET t == TickTime(ticks + 1)
            held == IF in.scan THEN in.rd ELSE mux_readings
            rds == IF in.scan THEN Normalise(held)
                              ELSE [i \in 1..N_channels |-> NaN]
            P1 == [v |-> p1, at |-> AfterTick(ticks + 1)]
            h == [hist EXCEPT !.raw = held, !.scan = in.scan]
        IN  /\ epoch_time' = t
            /\ readings' = rds
            /\ mux_readings' = rds
            /\ ticks' = ticks + 1
            /\ IF Len(rds) < N_channels
                 THEN /\ tpc' = "idle"
                      /\ hist' = [h EXCEPT !.aborted = @ + 1]
                      /\ UNCHANGED <<bath, chartVars>>
                 ELSE /\ tpc' = "start"
                      /\ CHs_mux' = [i \in 1..N_channels |->
                            appendData(CHs_mux[i], Sample(t, rds[i]))]
                      /\ bath' = [bath EXCEPT !.P1_temp = P1]
                      /\ CH_P1_temp' = appendData(CH_P1_temp, AuxSample(t, P1))
                      /\ CH_P2_temp' = appendData(CH_P2_temp,
                                                  AuxSample(t, bath.P2_temp))
                      /\ CH_PT104_ch1_T' = appendData(CH_PT104_ch1_T,
                                                      AuxSample(t, ch1_T))
                      /\ hist' = [h EXCEPT
                            !.fed.ch = [i \in 1..N_channels |->
                                          Append(@[i], Sample(t, rds[i]))],
                            !.fed.P1 = Append(@, AuxSample(t, P1)),
                            !.fed.P2 = Append(@, AuxSample(t, bath.P2_temp)),
                            !.fed.PT = Append(@, AuxSample(t, ch1_T)),
                            !.sinceClick = IF @ = "none" THEN "begun" ELSE @,
                            !.bathFailed = (p1 = NaN),
                            !.appended.ch = [i \in 1..N_channels |-> @[i] + 1],
                            !.appended.P1 = @ + 1,
                            !.appended.P2 = @ + 1,
                            !.appended.PT = @ + 1]
    /\ UNCHANGED <<guiVars, loggerVars, disk, ch1_T, ich>>

\* The same lines, 486-512, one step per chart buffer: what another thread
\* can see of a tick while it appends.
\* lines 486-501: the time stamp and the readings
TickRead(Inputs, Bound) ==
    /\ ThreadsRunning
    /\ tpc = "idle"
    /\ ticks < Bound
    /\ \E in \in Inputs :
        LET held == IF in.scan THEN in.rd ELSE mux_readings
            rds == IF in.scan THEN Normalise(held)
                              ELSE [i \in 1..N_channels |-> NaN]
            h == [hist EXCEPT !.raw = held, !.scan = in.scan]
        IN  /\ epoch_time' = TickTime(ticks + 1)
            /\ readings' = rds
            /\ mux_readings' = rds
            /\ ticks' = ticks + 1
            /\ IF Len(rds) < N_channels
                 THEN /\ tpc' = "idle"
                      /\ ich' = 0
                      /\ hist' = [h EXCEPT !.aborted = @ + 1]
                 ELSE /\ tpc' = "append"
                      /\ ich' = 1
                      /\ hist' = [h EXCEPT
                            !.sinceClick = IF @ = "none" THEN "begun" ELSE @]
    /\ UNCHANGED <<guiVars, loggerVars, disk, bath, ch1_T, chartVars>>

\* lines 504-505, one pass of the loop
TickAppendCH ==
    /\ tpc = "append"
    /\ CHs_mux' = [CHs_mux EXCEPT
          ![ich] = appendData(@, Sample(epoch_time, readings[ich]))]
    /\ hist' = [hist EXCEPT
          !.fed.ch[ich] = Append(@, Sample(epoch_time, readings[ich])),
          !.appended.ch[ich] = @ + 1]
    /\ IF ich < N_channels
         THEN ich' = ich + 1 /\ tpc' = "append"
         ELSE ich' = 0 /\ tpc' = "bath"
    /\ UNCHANGED <<guiVars, loggerVars, disk, bath, ch1_T, mux_readings, ticks,
                   epoch_time, readings, CH_P1_temp, CH_P2_temp, CH_PT104_ch1_T>>

\* lines 508-510
TickBath(Replies) ==
    /\ tpc = "bath"
    /\ \E p1 \in Replies :
        LET P1 == [v |-> p1, at |-> AfterTick(ticks)]
        IN  /\ bath' = [bath EXCEPT !.P1_temp = P1]
            /\ CH_P1_temp' = appendData(CH_P1_temp, AuxSample(epoch_time, P1))
            /\ hist' = [hist EXCEPT
                  !.bathFailed = (p1 = NaN),
                  !.fed.P1 = Append(@, AuxSample(epoch_time, P1)),
                  !.appended.P1 = @ + 1]
    /\ tpc' = "P2"
    /\ UNCHANGED <<guiVars, loggerVars, disk, ch1_T, mux_readings, ticks,
                   tickLocals, CHs_mux, CH_P2_temp, CH_PT104_ch1_T>>

\* line 511
TickAppendP2 ==
    /\ tpc = "P2"
    /\ CH_P2_temp' = appendData(CH_P2_temp, AuxSample(epoch_time, bath.P2_temp))
    /\ hist' = [hist EXCEPT
          !.fed.P2 = Append(@, AuxSample(epoch_time, bath.P2_temp)),
          !.appended.P2 = @ + 1]
    /\ tpc' = "PT"
    /\ UNCHANGED <<guiVars, loggerVars, disk, bath, ch1_T, mux_readings, ticks,
                   tickLocals, CHs_mux, CH_P1_temp, CH_PT104_ch1_T>>

\* line 512
TickAppendPT ==
    /\ tpc = "PT"
    /\ CH_PT104_ch1_T' = appendData(CH_PT104_ch1_T, AuxSample(epoch_time, ch1_T))
    /\ hist' = [hist EXCEPT
          !.fed.PT = Append(@, AuxSample(epoch_time, ch1_T)),
          !.appended.PT = @ + 1]
    /\ tpc' = "start"
    /\ UNCHANGED <<guiVars, loggerVars, disk, bath, ch1_T, mux_readings, ticks,
                   tickLocals, CHs_mux, CH_P1_temp, CH_P2_temp>>

\* a slip: the button's state is polled instead of the one-shot request
StartRequested_Polled == checked /\ ~is_recording

\* line 518: a start request is pending
StartRequested == starting

\* a slip: the start time of the first session is kept for later ones
StartTimeArg_KeepFirst == IF start_time = 0 THEN epoch_time ELSE start_time

\* line 524: the start time handed to create_log
StartTimeArg == epoch_time

\* lines 518-527
TickStart(OpenResults) ==
    /\ tpc = "start"
    /\ IF StartRequested
         THEN \E canOpen \in OpenResults :
                /\ create_log(StartTimeArg, FileName(epoch_time), canOpen)
                /\ tpc' = IF canOpen THEN "header" ELSE "stop"
                /\ hist' = [hist EXCEPT
                      !.nCreate = @ + 1,
                      !.fail = IF ~canOpen /\ ~is_recording
                                 THEN [on |-> TRUE, files |-> files, clicks |-> clicks,
                                       tick |-> ticks]
                                 ELSE NoFail]
         ELSE /\ tpc' = "stop"
              /\ UNCHANGED <<loggerVars, hist>>
    /\ UNCHANGED <<guiVars, disk, bath, ch1_T, mux_readings, ticks,
                   tickLocals, chartVars>>

\* the history of a tick that ran to its end: sinceClick tells whether a
\* tick that began after the last click ("begun") has ended ("done")
TickEnded(h) ==
    [h EXCEPT !.sinceClick = IF @ = "begun" THEN "done" ELSE @]

\* lines 529-538
TickHeader ==
    /\ tpc = "header"
    /\ files' = write(files, HeaderText)
    /\ hist' = Wrote(hist)
    /\ tpc' = "stop"
    /\ UNCHANGED <<guiVars, starting, stopping, is_recording, start_time, f_log,
                   disk, bath, ch1_T, mux_readings, ticks, tickLocals, chartVars>>

\* lines 540-544
TickStop ==
    /\ tpc = "stop"
    /\ IF stopping THEN close_log ELSE UNCHANGED loggerVars
    /\ tpc' = "row"
    /\ UNCHANGED <<guiVars, disk, bath, ch1_T, mux_readings, ticks,
                   tickLocals, chartVars, hist>>

\* lines 546-552: without a recording the tick ends here
TickRowAux ==
    /\ tpc = "row"
    /\ IF is_recording
         THEN /\ files' = write(files, RowAuxText)
              /\ hist' = Wrote(hist)
              /\ tpc' = "row_rest"
         ELSE /\ tpc' = "idle"
              /\ hist' = TickEnded(hist)
              /\ UNCHANGED files
    /\ UNCHANGED <<guiVars, starting, stopping, is_recording, start_time, f_log,
                   disk, bath, ch1_T, mux_readings, ticks, tickLocals, chartVars>>

\* lines 553-559; the tick ends, and the file counts it when the session
\* is still recording
TickRowRest ==
    /\ tpc = "row_rest"
    /\ LET fs == write(files, RowRestText)
       IN  files' = IF is_recording THEN [fs EXCEPT ![f_log].ticks = @ + 1] ELSE fs
    /\ hist' = TickEnded(Wrote(hist))
    /\ tpc' = "idle"
    /\ UNCHANGED <<guiVars, starting, stopping, is_recording, start_time, f_log,
                   disk, bath, ch1_T, mux_readings, ticks, tickLocals, chartVars>>

(* ------------------------ the specifications --------------------------- *)
\* The recording session under every interleaving of the GUI thread, the
\* DAQ thread and the disk: clicks, shutdown, failing opens and writes.
Next ==
    \/ Startup
    \/ process_qpbt_record
    \/ QuitCloseLog
    \/ QuitCloseThreads
    \/ QuitCloseDevices
    \/ DiskFault
    \/ TickBegin(ControlInputs, BathAnswers, MaxTicks)
    \/ TickStart(BOOLEAN)
    \/ TickHeader
    \/ TickStop
    \/ TickRowAux
    \/ TickRowRest

Spec == Init /\ [][Next]_vars

\* The data path under every device input: scans with overloads, short
\* scans, a multiplexer that is not scanning, failing bath queries and the
\* PT104 thread; the disk is healthy and the program is not shut down.
NextData ==
    \/ Startup
    \/ process_qpbt_record
    \/ Pt104Update
    \/ TickBegin(TickInputs, BathReplies, MaxDataTicks)
    \/ TickStart({TRUE})
    \/ TickHeader
    \/ TickStop
    \/ TickRowAux
    \/ TickRowRest

SpecData == Init /\ [][NextData]_vars

\* The chart buffers under every interleaving of clear_all_charts on the GUI
\* thread with the appends of a tick on the DAQ thread; no recording.
NextClear ==
    \/ Startup
    \/ clear_all_charts
    \/ ClearNext
    \/ TickRead(ControlInputs, MaxTicks)
    \/ TickAppendCH
    \/ TickBath(BathAnswers)
    \/ TickAppendP2
    \/ TickAppendPT
    \/ TickStart({TRUE})
    \/ TickStop
    \/ TickRowAux

SpecClear == Init /\ [][NextClear]_vars

(* ------------------------- reading a log file -------------------------- *)
RECURSIVE CompleteLines(_)
\* the lines of a text that are ended by a newline, without the newline
CompleteLines(text) ==
    IF \A k \in DOMAIN text : text[k] # NL THEN <<>>
    ELSE LET n == CHOOSE k \in DOMAIN text :
                      text[k] = NL /\ \A j \in 1..(k - 1) : text[j] # NL
         IN  <<SubSeq(text, 1, n - 1)>> \o CompleteLines(SubSeq(text, n + 1, Len(text)))

RECURSIVE PartialLine(_)
\* what follows the last newline
PartialLine(text) ==
    IF \A k \in DOMAIN text : text[k] # NL THEN text
    ELSE LET n == CHOOSE k \in DOMAIN text :
                      text[k] = NL /\ \A j \in 1..(k - 1) : text[j] # NL
         IN  PartialLine(SubSeq(text, n + 1, Len(text)))

\* a line's fields: the pieces between the tabs
Fields(line) == [k \in 1..((Len(line) + 1) \div 2) |-> line[2 * k - 1]]

IsHeaderLine(line) ==
    /\ Len(line) > 0
    /\ \A k \in DOMAIN line : line[k].t = (IF k % 2 = 1 THEN "txt" ELSE "tab")
IsDataLine(line) ==
    /\ Len(line) > 0
    /\ \A k \in DOMAIN line : line[k].t = (IF k % 2 = 1 THEN "num" ELSE "tab")

\* no write has failed and the program is not shutting down
Undisturbed == gpc = "run" /\ disk = "ok"

\* the DAQ thread is in the middle of a data row of file i
MidRow(i) == tpc = "row_rest" /\ f_log = i

C2_NoWriteToClosedHandle == ~hist.closedWrite

(* ------------------------------- C3 ------------------------------------ *)
\* C3: a start request that mux_process handles while the session is
\* recording is rejected: no file is created, the open file stays the
\* session's file and stays recording, the start time and the file's
\* contents are unchanged.
C3_StartWhileActiveRejected ==
    [][(tpc = "start" /\ tpc' # "start" /\ starting /\ is_recording)
          => (files' = files /\ f_log' = f_log /\ start_time' = start_time
                /\ is_recording')]_vars

(* ------------------------------- C7 ------------------------------------ *)
\* C7: once shutdown has closed the recording session, the acquisition
\* thread has been stopped: no tick is in flight and none begins.
C7_SessionClosedAfterThreadsStopped == gpc = "log_closed" => tpc = "idle"

(* ------------------------------- C8 ------------------------------------ *)
\* C8: once a write to the open log file has failed, the session is Idle:
\* is_recording is false and the file is closed.
C8_WriteFailureForcesIdle ==
    hist.ioError => (~is_recording /\ \A i \in DOMAIN files : ~files[i].open)

(* ------------------------------- C9 ------------------------------------ *)
\* C9: after a start request from Idle that could not open its file, and
\* until a later start succeeds, the session is not recording, no file is
\* created and nothing is written to any file, and the request is not
\* pending unless the button was clicked again; a start request is handed
\* to create_log at most once.
C9_FailedOpenLeavesIdle ==
    /\ hist.fail.on =>
        /\ ~is_recording
        /\ files = hist.fail.files
        /\ starting => clicks > hist.fail.clicks
    /\ hist.nCreate <= hist.nStartClicks

\* an open failed, and a later tick has run to its end since
C9_Witness ==
    /\ hist.fail.on
    /\ ticks > hist.fail.tick
    /\ tpc = "idle"
    /\ gpc = "run"

(* ------------------------------- C10 ----------------------------------- *)
\* C10: a device that is unavailable never ends the program's acquisition,
\* and a tick whose bath query failed still appends to every buffer.
C10_DeviceFailureDoesNotHalt ==
    /\ gpc # "exited"
    /\ (tpc # "idle" /\ hist.bathFailed) =>
          /\ \A i \in 1..N_channels : CHs_mux[i][Len(CHs_mux[i])].t = epoch_time
          /\ CH_P1_temp[Len(CH_P1_temp)].t = epoch_time
          /\ CH_P2_temp[Len(CH_P2_temp)].t = epoch_time
          /\ CH_PT104_ch1_T[Len(CH_PT104_ch1_T)].t = epoch_time

(* ------------------------------- C4 ------------------------------------ *)
\* the sample a buffer holds for time t, if it holds one
SampleAt(buf, t) == {buf[k].v : k \in {j \in DOMAIN buf : buf[j].t = t}}

\* C4: in every data row, the bath P1, bath P2 and PT104 values were
\* obtained at or before the row's time stamp, and each equals the value
\* appended to its chart buffer for that tick.
C4_AuxNotLaterThanRow ==
    \A i \in DOMAIN files :
        LET lines == CompleteLines(files[i].text)
        IN  \A k \in 2..Len(lines) :
              LET f == Fields(lines[k])
                  t == f[1].at
              IN  /\ f[2].at <= t /\ f[3].at <= t /\ f[4].at <= t
                  /\ SampleAt(CH_P1_temp, t) \subseteq {f[2].v}
                  /\ SampleAt(CH_P2_temp, t) \subseteq {f[3].v}
                  /\ SampleAt(CH_PT104_ch1_T, t) \subseteq {f[4].v}

\* the same, for the PT104 column alone
C4_Pt104ChartEqualsLog ==
    \A i \in DOMAIN files :
        LET lines == CompleteLines(files[i].text)
        IN  \A k \in 2..Len(lines) :
              LET f == Fields(lines[k])
              IN  SampleAt(CH_PT104_ch1_T, f[1].at) \subseteq {f[4].v}

(* ------------------------------- C5 ------------------------------------ *)
\* C5: every tick appends one sample to every buffer: each buffer has
\* received as many samples as ticks have begun.
C5_OneSamplePerTickPerBuffer ==
    /\ \A i \in 1..N_channels : hist.appended.ch[i] = ticks
    /\ hist.appended.P1 = ticks
    /\ hist.appended.P2 = ticks
    /\ hist.appended.PT = ticks

(* ------------------------------- C6 ------------------------------------ *)
\* C6: while a tick of a scanning multiplexer is in flight, every channel
\* whose reported value is a sentinel holds NaN as its newest buffer
\* sample, every other channel holds the reported value; the row the tick
\* has written holds the same.
C6_SentinelBecomesNaN ==
    (tpc # "idle" /\ hist.scan) =>
        \A i \in 1..N_channels :
            LET want == IF IsSentinel(hist.raw[i]) THEN NaN ELSE hist.raw[i]
            IN  /\ CHs_mux[i][Len(CHs_mux[i])].v = want
                /\ (tpc = "row_rest" /\ is_recording) => mux_readings[i] = want

(* ------------------------------- C11 ----------------------------------- *)
\* the header's fields, as the manifest prescribes them
HeaderFields ==
    <<Txt("time[s]", 0), Txt("P1_temp[degC]", 0), Txt("P2_temp[degC]", 0),
      Txt("PT104_Ch1[degC]", 0)>>
    \o [k \in 1..N_channels |-> Txt("CH", all_scan_list_channels[k])]

\* a line made of fields with one tab between two fields
TabSeparated(line) ==
    /\ Len(line) % 2 = 1
    /\ \A k \in DOMAIN line : (line[k] = TAB) <=> (k % 2 = 0)

\* a data line in the column order of the header; column 4 + k holds the
\* reading of manifest channel k of the line's tick
DataLineInOrder(line) ==
    /\ TabSeparated(line)
    /\ Len(Fields(line)) = 4 + N_channels
    /\ LET f == Fields(line)
       IN  /\ \A k \in DOMAIN f : f[k].t = "num"
           /\ f[1].fmt = "%.3f" /\ f[1].v = f[1].at - start_time
           /\ f[2].fmt = "%.2f" /\ f[3].fmt = "%.2f" /\ f[4].fmt = "%.3f"
           /\ \A k \in 1..N_channels :
                /\ f[4 + k].fmt = "%.5e"
                /\ SampleAt(CHs_mux[k], f[1].at) \subseteq {f[4 + k].v}

\* every line that was ended by a newline has the 4 + N columns, in order
CompleteLinesAgree ==
    \A i \in DOMAIN files :
        LET lines == CompleteLines(files[i].text)
        IN  /\ Len(lines) >= 1 =>
                (TabSeparated(lines[1]) /\ Fields(lines[1]) = HeaderFields)
            /\ \A k \in 2..Len(lines) :
                (i = f_log /\ is_recording) => DataLineInOrder(lines[k])
            /\ \A k \in 2..Len(lines) :
                /\ TabSeparated(lines[k])
                /\ Len(Fields(lines[k])) = 4 + N_channels

\* C11: the header line and every data line of a log file have 4 + N
\* tab-separated fields in the same order (elapsed time, bath P1, bath P2,
\* PT104 channel 1, then the manifest channels in manifest order, column k
\* of a row holding the reading of channel k), and every line is ended by
\* a newline: outside the row being written, no file ends in a cut-off line.
C11_HeaderAndRowsSameColumns ==
    /\ CompleteLinesAgree
    /\ \A i \in DOMAIN files : ~MidRow(i) => PartialLine(files[i].text) = <<>>

(* ------------------------------- C12 ----------------------------------- *)
\* the last tick was one of a scanning multiplexer that reported fewer
\* values than the manifest has channels
ShortScanTick == ticks > 0 /\ hist.scan /\ Len(hist.raw) < N_channels

\* C12: a tick whose readings list is shorter than the manifest still runs
\* to its end, and while recording it writes a row of 4 + N fields: the
\* field of a channel that is present holds its reading, the field of a
\* missing channel holds NaN.
C12_ShortScanWritesFullRow ==
    /\ hist.aborted = 0
    /\ (ShortScanTick /\ tpc = "idle" /\ is_recording /\ Undisturbed) =>
          LET lines == CompleteLines(files[f_log].text)
          IN  /\ Len(lines) >= 2
              /\ LET f == Fields(lines[Len(lines)])
                 IN  /\ Len(f) = 4 + N_channels
                     /\ f[1].at = epoch_time
                     /\ \A k \in 1..N_channels :
                          f[4 + k].v = IF k <= Len(hist.raw) THEN hist.raw[k]
                                                            ELSE NaN

(* ------------------------------- C14 ----------------------------------- *)
\* C14: a stop request is never lost: whenever the record button is
\* unchecked and a tick that began after the last click has run to its end
\* (so also after a start click and a stop click that were both pending
\* when that tick ran), the session is not recording.
C14_StopRequestNeverLost ==
    (~checked /\ hist.sinceClick = "done") => ~is_recording

(* ------------------------------- C15 ----------------------------------- *)
\* C15: once clear_all_charts and the tick it ran beside have both
\* finished, all buffers hold the same number of samples.
C15_ClearKeepsLockStep ==
    (cpc.at = "none" /\ tpc = "idle") =>
        /\ \A i \in 1..N_channels : Len(CHs_mux[i]) = Len(CH_P1_temp)
        /\ Len(CH_P2_temp) = Len(CH_P1_temp)
        /\ Len(CH_PT104_ch1_T) = Len(CH_P1_temp)

(* ------------------------------- C13 ----------------------------------- *)
Min(a, b) == IF a < b THEN a ELSE b

\* the last n elements of a sequence
LastN(q, n) == SubSeq(q, Len(q) - n + 1, Len(q))

\* buf holds the most recent min(N, C) of the N samples fed to it since its
\* last clear, in insertion order
IsRingOf(buf, fed) ==
    /\ Len(buf) = Min(Len(fed), CH_SAMPLES_MUX)
    /\ Len(buf) <= CH_SAMPLES_MUX
    /\ buf = LastN(fed, Min(Len(fed), CH_SAMPLES_MUX))

====
